---------------------------- MODULE Spec2Model ----------------------------
(* Model of the AURA eye-test screen (EyeTestScreen): the face-landmark      *)
(* detection loop, the calibration stage, the exam phase sequencer runExam   *)
(* and the metrics it reports and persists.                                  *)
(*                                                                           *)
(* Numbers.  JavaScript numbers are modelled in fixed point: normalised      *)
(* landmark coordinates, velocities, thresholds and metrics are integers in  *)
(* thousandths (0.25 is 250), times are integer milliseconds, and a division *)
(* is the integer division of the scaled operands.  A nullable value         *)
(* (number | null) is a sequence: << >> is null, <<v>> is the number v.      *)
(*                                                                           *)
(* Scheduling.  Everything runs on one JavaScript thread: each action is one *)
(* callback (a click handler, a timer, a promise continuation, an animation  *)
(* frame) run to completion.  Timers are untimed: a pending timer may fire   *)
(* at any later step.  The clock `now` (performance.now()) advances by one   *)
(* display frame at each animation-frame callback.                           *)
EXTENDS Integers, Sequences, FiniteSets, TLC

\* ------------------------------------------------------------- bounds
MaxTicks == 8          \* animation-frame callbacks modelled
MaxRuns == 2           \* runExam invocations modelled
MaxInFlight == 2       \* cap of the list of landmark calls in flight
RafMs == 17            \* display frame period in ms (60 Hz)
RunTicks == 4          \* animation-frame callbacks modelled during a run
LatTicks == 1600       \* animation-frame callbacks of the timed scenario
InferenceMs == 17      \* timed scenario: ms from a landmark call to its result
TrueLatencyMs == 200   \* timed scenario: ms from a jump to the gaze shift
GazeCenter == 500      \* timed scenario: iris x while looking at the centre
GazeShift == 40        \* timed scenario: iris x offset while looking at a dot
MaxSessions == 4        \* post-op tracking sessions modelled
NumCallers == 3         \* callers of getFaceLandmarker modelled
LiveTicks == 2          \* animation-frame callbacks modelled in the fair run
FaceBackMs == 100      \* face-loss scenario: ms from the second jump to the face's return
GazeLengths == {100, 140, 150, 470, 478}  \* landmark array lengths modelled
GazeIrisTopX == {-100, 360, 1200}         \* x of the iris top point
GazeIrisTopY == {490, 1500}               \* y of the iris top point
GazeEyeInnerX == {-50, 300}               \* x of the inner eye corner
GazeIrisLeftX == {0, 350}                 \* x of the iris left point

\* ------------------------------------------- constants of the program
VELOCITY_SCALE == 2500
THRESHOLD_OFFSET == 100            \* 0.1
DEFAULT_AVG == 250                 \* 0.25, the mean used for an empty buffer
INITIAL_THRESHOLD == 250           \* useState(0.25)
EXAM_CYCLES == 5
DEPRESSION_MULTIPLIER_TENTHS == 12 \* 1.2
DETECTION_INTERVAL_MS == 33
HISTORY_LEN == 5
SACCADE_SETTLE_MS == 400
GAZE_TRIAL_CAP == 80
IRIS_HISTORY_CAP == 300
PURSUIT_SAMPLES_CAP == 200
STABILITY_STD_SCALE == 8
LATENCY_SHIFT_THRESHOLD == 8       \* 0.008
LATENCY_MIN_MS == 80
PURSUIT_AMPLITUDE == 350           \* 0.35
PURSUIT_PERIOD_MS == 2000
NUM_POSITIONS == 2                 \* EXAM_POSITIONS.length
CALIBRATION_DURATION_MS == 4000
EXAM_POSITION_DURATION_MS == 1500
PEAK_TRACK_INTERVAL_MS == 50
FLASH_DURATION_MS == 800
FIXATION_DURATION_MS == 2500
PURSUIT_DURATION_MS == 4000

\* ------------------------------------------------------------ helpers
Null == << >>
Some(v) == <<v>>
IsNull(m) == m = << >>
Val(m) == m[1]

Abs(a) == IF a < 0 THEN -a ELSE a
Min(a, b) == IF a < b THEN a ELSE b
Max(a, b) == IF a > b THEN a ELSE b

\* s[lo] + ... + s[hi], by halves
RECURSIVE SumRange(_, _, _)
SumRange(s, lo, hi) ==
    IF lo > hi THEN 0
    ELSE IF lo = hi THEN s[lo]
    ELSE LET mid == (lo + hi) \div 2
         IN SumRange(s, lo, mid) + SumRange(s, mid + 1, hi)

\* arr.reduce((a, b) => a + b, 0)
SumSeq(s) == SumRange(s, 1, Len(s))

\* arr.push(v) followed by `if (arr.length > cap) arr.shift()`
PushCapped(s, v, cap) ==
    LET t == Append(s, v) IN IF Len(t) > cap THEN Tail(t) ELSE t

\* arr.slice(-n)
LastN(s, n) == IF Len(s) <= n THEN s ELSE SubSeq(s, Len(s) - n + 1, Len(s))

RECURSIVE SqrtSearch(_, _, _)
SqrtSearch(n, lo, hi) ==
    IF lo >= hi THEN lo
    ELSE LET mid == (lo + hi + 1) \div 2
         IN IF mid * mid <= n THEN SqrtSearch(n, mid, hi)
                               ELSE SqrtSearch(n, lo, mid - 1)

\* Math.sqrt on scaled integers: the integer part of the root
Sqrt(n) == IF n <= 0 THEN 0 ELSE SqrtSearch(n, 0, Min(n, 46340))

\* Math.round(a / b) for a >= 0, b > 0
RoundDiv(a, b) == (2 * a + b) \div (2 * b)

\* ------------------------------------------------------------- inputs
\* The canvas takes the video's pixel size in onloadedmetadata.
Canvas == [width |-> 640, height |-> 480]

Pt(px, py) == [x |-> px, y |-> py]

\* Landmark frames the detector returns with all four iris landmarks, in
\* thousandths of the frame.
ValidFrames ==
    { [LEFT_IRIS |-> Pt(400, 500), RIGHT_IRIS |-> Pt(600, 500),
       IRIS_LEFT |-> Pt(390, 500), IRIS_RIGHT |-> Pt(410, 500)],
      [LEFT_IRIS |-> Pt(410, 500), RIGHT_IRIS |-> Pt(610, 504),
       IRIS_LEFT |-> Pt(400, 500), IRIS_RIGHT |-> Pt(424, 500)] }

VARIABLES
    mounted,      \* the screen is mounted (false once the operator left it)
    isDemo,       \* the ?demo=1 search parameter
    camera,       \* "requesting" | "stream" | "looping" | "failed"
    det,          \* the detection loop: raf, sendInFlight, lastDetection, sends
    now,          \* performance.now()
    ui,           \* the component's React state
    refs,         \* the component's refs
    runs,         \* the runExam invocations and their local variables
    intervals,    \* live peak-tracker intervals, each <<run, trial>>
    calibTimers,  \* pending calibration timeouts
    posts,        \* readings POSTed to /session
    obs,          \* observations of the run of the program (history variables)
    gazeCall,     \* a getGazePositionFromLandmarks call: argument and outcome
    landmarker,   \* lib/faceLandmarker.ts: the module's instance and its callers
    postOp        \* screens/PostOp.tsx: the tracking state, sessions and timers

vars == <<mounted, isDemo, camera, det, now, ui, refs, runs, intervals,
          calibTimers, posts, obs, gazeCall, landmarker, postOp>>


\* ------------------------------------------------- the initial state
NoMetrics ==
    [fixationStability |-> Null, pupilVariability |-> Null,
     prosaccadeLatency |-> Null, saccadeAccuracy |-> Null,
     smoothPursuitGain |-> Null]

InitUi ==
    [threshold |-> INITIAL_THRESHOLD, isCalibrating |-> FALSE,
     calibDone |-> FALSE, examRunning |-> FALSE, examBtnDisabled |-> TRUE,
     showTargetDot |-> FALSE, showFlash |-> FALSE,
     showResultsModal |-> FALSE, resultNormal |-> TRUE,
     finalSaccadeAvg |-> Null, metrics |-> NoMetrics]

InitRefs ==
    [history |-> << >>, calibData |-> << >>, examSaccadePeaks |-> << >>,
     forceFail |-> FALSE, peakTracker |-> Null, liveVelocity |-> 0,
     examActive |-> FALSE, examPhase |-> "null", irisSizeHistory |-> << >>,
     fixationGaze |-> << >>, prosaccadeLatencies |-> << >>,
     prosaccadeLatencyThisTrial |-> Null, jumpTime |-> 0,
     preJumpBaseline |-> Null, gazeTrial |-> << >>,
     saccadeAccuracy |-> << >>, pursuitStartTime |-> 0,
     pursuitSamples |-> << >>]

InitDet ==
    [raf |-> FALSE, sendInFlight |-> FALSE, lastDetection |-> 0,
     sends |-> << >>]

\* History variables: the velocity samples appended to calibData since the
\* calibration window in progress (or the last one) opened, whether a window
\* is open, how many have closed (counted up to 2), the runs that were in a
\* phase when the screen was left and the phase at that moment.
InitObs ==
    [window |-> << >>, windowOpen |-> FALSE, closedWindows |-> 0,
     aborted |-> {}, abortedIn |-> "none"]

\* lib/faceLandmarker.ts at module load: no instance, nobody has called
\* getFaceLandmarker, createLandmarker was never invoked.
InitLandmarker ==
    [instance |-> Null, created |-> 0,
     callers |-> [c \in 1..NumCallers |-> [pc |-> "idle", made |-> 0,
                                           got |-> Null]]]

\* screens/PostOp.tsx after mount: not tracking, no session started, no
\* handleToggleTracking call in progress, no auto-stop timer armed.  ends
\* records how each session ended: <<session, 0>> by the operator's Stop,
\* <<session, s>> by the auto-stop timer armed for session s.
InitPostOp ==
    [tracking |-> FALSE, session |-> 0, sessions |-> 0, starts |-> << >>,
     timers |-> {}, ends |-> {}]

\* No call of getGazePositionFromLandmarks has been made.
NoGazeCall ==
    [landmarks |-> << >>, called |-> FALSE, threw |-> FALSE,
     value |-> [x |-> [num |-> 0, den |-> 1], y |-> [num |-> 0, den |-> 1]]]

Init ==
    /\ mounted = TRUE
    /\ isDemo \in BOOLEAN
    /\ camera = "requesting"
    /\ det = InitDet
    /\ now = DETECTION_INTERVAL_MS
    /\ ui = InitUi
    /\ refs = InitRefs
    /\ runs = << >>
    /\ intervals = {}
    /\ calibTimers = 0
    /\ posts = << >>
    /\ obs = InitObs
    /\ gazeCall = NoGazeCall
    /\ landmarker = InitLandmarker
    /\ postOp = InitPostOp

\* A React state setter: a no-op once the component is unmounted.
SetUi(new) == IF mounted THEN new ELSE ui

\* --------------------------------------------- onResults (per frame)
avgX(f) == (f.LEFT_IRIS.x + f.RIGHT_IRIS.x) \div 2
avgY(f) == (f.LEFT_IRIS.y + f.RIGHT_IRIS.y) \div 2

\* irisWidthPx / canvas.width, in thousandths of the frame width
irisWidthNorm(f) ==
    LET dx == f.IRIS_RIGHT.x - f.IRIS_LEFT.x
        dy == f.IRIS_RIGHT.y - f.IRIS_LEFT.y
        irisWidthPx == Sqrt((dx * Canvas.width) * (dx * Canvas.width)
                            + (dy * Canvas.height) * (dy * Canvas.height))
    IN irisWidthPx \div Canvas.width

\* x / 0 in JavaScript: larger than every finite velocity
Infinity == VELOCITY_SCALE * VELOCITY_SCALE * 100

\* v = (Math.abs(last.x - prev.x) / dt) * VELOCITY_SCALE, of the two newest
\* history entries
Velocity(h) ==
    LET last == h[Len(h)]
        prev == h[Len(h) - 1]
        dt == last.t - prev.t
    IN IF dt = 0 THEN Infinity
       ELSE (Abs(last.x - prev.x) * VELOCITY_SCALE) \div dt

\* Math.sin(deg) in thousandths, 0 <= deg < 360 (Bhaskara's rational
\* approximation, exact at 0, 30, 90, 150 and 180 degrees)
SinMilli(deg) ==
    LET d == IF deg < 180 THEN deg ELSE deg - 180
        p == d * (180 - d)
        s == (4000 * p) \div (40500 - p)
    IN IF deg < 180 THEN s ELSE -s

\* 0.5 + PURSUIT_AMPLITUDE * sin((elapsed / PURSUIT_PERIOD_MS) * 2 * PI)
PursuitTargetX(elapsed) ==
    LET deg == ((elapsed % PURSUIT_PERIOD_MS) * 360) \div PURSUIT_PERIOD_MS
    IN 500 + (PURSUIT_AMPLITUDE * SinMilli(deg)) \div 1000

\* onResults without the `prosaccadeLatencyThisTrialRef.current === null` test
OnValidFrameNoLatchTest(r, f, isCal, t) ==
    LET x == avgX(f)
        h == PushCapped(r.history, [x |-> x, t |-> t], HISTORY_LEN)
        hasV == Len(h) > 2
        v == Velocity(h)
        r1 == [r EXCEPT
                 !.history = h,
                 !.calibData = IF hasV /\ isCal THEN Append(@, v) ELSE @,
                 !.liveVelocity = IF hasV THEN v ELSE @,
                 !.irisSizeHistory =
                     IF r.examActive
                     THEN PushCapped(@, irisWidthNorm(f), IRIS_HISTORY_CAP)
                     ELSE @,
                 !.fixationGaze =
                     IF r.examActive /\ r.examPhase = "fixation"
                     THEN Append(@, [x |-> x, y |-> avgY(f), t |-> t])
                     ELSE @,
                 !.gazeTrial =
                     IF r.examPhase = "saccade"
                     THEN PushCapped(@, [x |-> x, t |-> t], GAZE_TRIAL_CAP)
                     ELSE @,
                 !.prosaccadeLatencyThisTrial =
                     IF /\ r.examPhase = "saccade"
                        /\ r.jumpTime > 0
                        /\ t - r.jumpTime >= LATENCY_MIN_MS
                        /\ ~IsNull(r.preJumpBaseline)
                        /\ Abs(x - Val(r.preJumpBaseline))
                               > LATENCY_SHIFT_THRESHOLD
                     THEN Some(t - r.jumpTime)
                     ELSE @,
                 !.pursuitSamples =
                     IF r.examPhase = "pursuit"
                     THEN PushCapped(@,
                            [gazeX |-> x,
                             targetX |-> PursuitTargetX(t - r.pursuitStartTime),
                             t |-> t],
                            PURSUIT_SAMPLES_CAP)
                     ELSE @]
    IN r1

\* The body of onResults for a frame with a face and all iris landmarks.
\* isCal is the isCalibrating value the callback closed over.
OnValidFrame(r, f, isCal, t) ==
    LET x == avgX(f)
        h == PushCapped(r.history, [x |-> x, t |-> t], HISTORY_LEN)
        hasV == Len(h) > 2
        v == Velocity(h)
        r1 == [r EXCEPT
                 !.history = h,
                 !.calibData = IF hasV /\ isCal THEN Append(@, v) ELSE @,
                 !.liveVelocity = IF hasV THEN v ELSE @,
                 !.irisSizeHistory =
                     IF r.examActive
                     THEN PushCapped(@, irisWidthNorm(f), IRIS_HISTORY_CAP)
                     ELSE @,
                 !.fixationGaze =
                     IF r.examActive /\ r.examPhase = "fixation"
                     THEN Append(@, [x |-> x, y |-> avgY(f), t |-> t])
                     ELSE @,
                 !.gazeTrial =
                     IF r.examPhase = "saccade"
                     THEN PushCapped(@, [x |-> x, t |-> t], GAZE_TRIAL_CAP)
                     ELSE @,
                 !.prosaccadeLatencyThisTrial =
                     IF /\ r.examPhase = "saccade"
                        /\ IsNull(r.prosaccadeLatencyThisTrial)
                        /\ r.jumpTime > 0
                        /\ t - r.jumpTime >= LATENCY_MIN_MS
                        /\ ~IsNull(r.preJumpBaseline)
                        /\ Abs(x - Val(r.preJumpBaseline))
                               > LATENCY_SHIFT_THRESHOLD
                     THEN Some(t - r.jumpTime)
                     ELSE @,
                 !.pursuitSamples =
                     IF r.examPhase = "pursuit"
                     THEN PushCapped(@,
                            [gazeX |-> x,
                             targetX |-> PursuitTargetX(t - r.pursuitStartTime),
                             t |-> t],
                            PURSUIT_SAMPLES_CAP)
                     ELSE @]
    IN r1

\* ------------------------------------------------ the camera effect
\* getUserMedia resolves: the stream is attached unless the effect was
\* cleaned up.
CameraGranted ==
    /\ camera = "requesting"
    /\ mounted
    /\ camera' = "stream"
    /\ UNCHANGED <<gazeCall, landmarker, postOp,
                   mounted, isDemo, det, now, ui, refs, runs, intervals,
                   calibTimers, posts, obs>>

\* getUserMedia rejects.
CameraFailed ==
    /\ camera = "requesting"
    /\ camera' = "failed"
    /\ UNCHANGED <<gazeCall, landmarker, postOp,
                   mounted, isDemo, det, now, ui, refs, runs, intervals,
                   calibTimers, posts, obs>>

\* process() without the busy flag in its test
processNoBusyFlag(d, t) ==
    IF ~mounted THEN [d EXCEPT !.raf = FALSE]
    ELSE IF t - d.lastDetection >= DETECTION_INTERVAL_MS
         THEN [d EXCEPT !.lastDetection = t, !.sendInFlight = TRUE,
                        !.sends = Append(@, [isCalibrating |-> ui.isCalibrating]),
                        !.raf = TRUE]
         ELSE [d EXCEPT !.raf = TRUE]

\* process(): one pass of the detection loop at time t.  A landmark call is
\* sent only when none is in flight and the detection interval has elapsed;
\* the call carries the onResults closure of the current render.
process(d, t) ==
    IF ~mounted THEN [d EXCEPT !.raf = FALSE]
    ELSE IF ~d.sendInFlight /\ t - d.lastDetection >= DETECTION_INTERVAL_MS
         THEN [d EXCEPT !.lastDetection = t, !.sendInFlight = TRUE,
                        !.sends = Append(@, [isCalibrating |-> ui.isCalibrating]),
                        !.raf = TRUE]
         ELSE [d EXCEPT !.raf = TRUE]

\* video.onloadedmetadata: sizes the canvas and makes the first process()
\* call.
LoadedMetadata ==
    /\ camera = "stream"
    /\ camera' = "looping"
    /\ det' = process(det, now)
    /\ UNCHANGED <<gazeCall, landmarker, postOp,
                   mounted, isDemo, now, ui, refs, runs, intervals,
                   calibTimers, posts, obs>>

\* requestAnimationFrame(process) fires, one display frame later.
RafTick(maxTicks) ==
    /\ det.raf
    /\ now < DETECTION_INTERVAL_MS + maxTicks * RafMs
    /\ Len(det.sends) < MaxInFlight
    /\ now' = now + RafMs
    /\ det' = process(det, now')
    /\ UNCHANGED <<gazeCall, landmarker, postOp,
                   mounted, isDemo, camera, ui, refs, runs, intervals,
                   calibTimers, posts, obs>>

\* send() settles after calling onResults with a face and iris landmarks.
SendValid(f) ==
    /\ det.sends # << >>
    /\ LET c == Head(det.sends)
       IN /\ refs' = IF mounted
                     THEN OnValidFrame(refs, f, c.isCalibrating, now)
                     ELSE refs
          /\ obs' = IF obs.windowOpen /\ refs'.calibData # refs.calibData
                    THEN [obs EXCEPT !.window =
                            Append(@, refs'.calibData[Len(refs'.calibData)])]
                    ELSE obs
    /\ det' = [det EXCEPT !.sends = Tail(@), !.sendInFlight = FALSE]
    /\ UNCHANGED <<gazeCall, landmarker, postOp,
                   mounted, isDemo, camera, now, ui, runs, intervals,
                   calibTimers, posts>>

\* The iris landmarks onResults reads
IrisKeys == {"LEFT_IRIS", "RIGHT_IRIS", "IRIS_LEFT", "IRIS_RIGHT"}

\* A detection result: the number of faces and, for the first face, the
\* landmark at each iris index (Null where the array has none).
Result(faces, f, missing) ==
    [faces |-> faces,
     landmarks |-> [k \in IrisKeys |-> IF k \in missing THEN Null
                                                     ELSE Some(f[k])]]

\* A landmark frame with every iris landmark
FullFrame ==
    [LEFT_IRIS |-> Pt(400, 500), RIGHT_IRIS |-> Pt(640, 500),
     IRIS_LEFT |-> Pt(390, 500), IRIS_RIGHT |-> Pt(410, 500)]

\* The results of a face whose landmark array lacks one iris landmark
IncompleteResults == {Result(1, FullFrame, {k}) : k \in IrisKeys}

\* The misses delivered: no face, and a face without any iris landmark
\* (a 468-point mesh)
MissResults == {Result(0, FullFrame, IrisKeys), Result(1, FullFrame, IrisKeys)}

\* onResults with a miss that empties the velocity history
onResultsMissClearsHistory(r, results, isCal, t) ==
    IF results.faces > 0
       /\ \A k \in IrisKeys : ~IsNull(results.landmarks[k])
    THEN OnValidFrame(r, [k \in IrisKeys |-> Val(results.landmarks[k])],
                      isCal, t)
    ELSE [r EXCEPT !.history = << >>]

\* onResults: nothing but the canvas is touched unless a face was found and
\* its four iris landmarks are present.
onResults(r, results, isCal, t) ==
    IF results.faces > 0
    THEN IF \E k \in IrisKeys : IsNull(results.landmarks[k])
         THEN r
         ELSE OnValidFrame(r, [k \in IrisKeys |-> Val(results.landmarks[k])],
                           isCal, t)
    ELSE r

\* send() settles with no face, with a face whose iris landmarks are
\* missing, or by rejecting.
SendMiss ==
    /\ det.sends # << >>
    /\ \E results \in MissResults :
          refs' = IF mounted
                  THEN onResults(refs, results,
                                 Head(det.sends).isCalibrating, now)
                  ELSE refs
    /\ det' = [det EXCEPT !.sends = Tail(@), !.sendInFlight = FALSE]
    /\ UNCHANGED <<gazeCall, landmarker, postOp,
                   mounted, isDemo, camera, now, ui, runs, intervals,
                   calibTimers, posts, obs>>

\* ------------------------------------------------- calibration stage
\* threshold = mean(calibData) + THRESHOLD_OFFSET, the mean of an empty
\* buffer being taken as 0.25
NewThreshold(data) ==
    LET avg == IF Len(data) > 0 THEN SumSeq(data) \div Len(data)
                                ELSE DEFAULT_AVG
    IN avg + THRESHOLD_OFFSET

\* handleCalibrate without `calibDataRef.current = []`
handleCalibrateKeepsBuffer ==
    /\ mounted
    /\ ~ui.isCalibrating
    /\ ui' = [ui EXCEPT !.isCalibrating = TRUE, !.calibDone = FALSE,
                        !.examBtnDisabled = TRUE]
    /\ calibTimers' = calibTimers + 1
    /\ obs' = [obs EXCEPT !.window = << >>, !.windowOpen = TRUE]
    /\ UNCHANGED <<gazeCall, landmarker, postOp,
                   mounted, isDemo, camera, det, now, refs, runs, intervals,
                   posts>>

\* handleCalibrate: the Calibrate button, enabled unless isCalibrating.
handleCalibrate ==
    /\ mounted
    /\ ~ui.isCalibrating
    /\ ui' = [ui EXCEPT !.isCalibrating = TRUE, !.calibDone = FALSE,
                        !.examBtnDisabled = TRUE]
    /\ refs' = [refs EXCEPT !.calibData = << >>]
    /\ calibTimers' = calibTimers + 1
    /\ obs' = [obs EXCEPT !.window = << >>, !.windowOpen = TRUE]
    /\ UNCHANGED <<gazeCall, landmarker, postOp,
                   mounted, isDemo, camera, det, now, runs, intervals, posts>>

\* The setTimeout callback of handleCalibrate, CALIBRATION_DURATION_MS later.
CalibrationTimeout ==
    /\ calibTimers > 0
    /\ calibTimers' = calibTimers - 1
    /\ ui' = SetUi([ui EXCEPT !.isCalibrating = FALSE,
                              !.threshold = NewThreshold(refs.calibData),
                              !.examBtnDisabled = FALSE,
                              !.calibDone = TRUE])
    /\ obs' = [obs EXCEPT !.windowOpen = FALSE,
                          !.closedWindows = Min(@ + 1, 2)]
    /\ UNCHANGED <<gazeCall, landmarker, postOp,
                   mounted, isDemo, camera, det, now, refs, runs, intervals,
                   posts>>

\* ------------------------------------------------ metrics of runExam
SumSq(s, c) == SumSeq([k \in 1..Len(s) |-> (s[k] - c) * (s[k] - c)])

SumOff(s, c) == SumSeq([k \in 1..Len(s) |-> s[k] - c])

\* variance(arr) of runExam, as the fraction num / den (sample variance,
\* computed about arr[0], which leaves it unchanged); 0 below two elements
variance(arr) ==
    IF Len(arr) < 2 THEN [num |-> 0, den |-> 1]
    ELSE LET n == Len(arr)
             c == arr[1]
         IN [num |-> n * SumSq(arr, c) - SumOff(arr, c) * SumOff(arr, c),
             den |-> n * (n - 1)]

MapX(s) == [i \in 1..Len(s) |-> s[i].x]
MapY(s) == [i \in 1..Len(s) |-> s[i].y]

\* Math.sqrt(variance(arr)) in units of 0.00001
Std(arr) == LET v == variance(arr) IN Sqrt((v.num * 10000) \div v.den)

\* fixationStabilityValue after the fixation phase
FixationStability(fix) ==
    IF Len(fix) >= 5
    THEN LET stdX == Std(MapX(fix))
             stdY == Std(MapY(fix))
         IN Some(Max(0, 1000 - RoundDiv((stdX + stdY) * STABILITY_STD_SCALE,
                                        100)))
    ELSE IF Len(fix) > 0 THEN Some(0) ELSE Null

\* pupilVariabilityValue: variance * 1000, rounded to three decimals
PupilVariability(irisHist) ==
    IF Len(irisHist) >= 2
    THEN LET v == variance(irisHist) IN Some(RoundDiv(v.num, v.den))
    ELSE IF Len(irisHist) > 0 THEN Some(0) ELSE Null

\* prosaccadeLatencyValue: the mean latency rounded to 0.1 ms, in tenths
ProsaccadeLatency(latencies) ==
    IF Len(latencies) > 0
    THEN Some(RoundDiv(SumSeq(latencies) * 10, Len(latencies)))
    ELSE Null

\* The validPairs of the accuracy scoring: delta * expectedSign for every
\* consecutive pair of trials that both have a settled gaze.
RECURSIVE ValidPairs(_, _)
ValidPairs(rawGazeX, k) ==
    IF k > Len(rawGazeX) THEN << >>
    ELSE LET prev == rawGazeX[k - 1]
             curr == rawGazeX[k]
             rest == ValidPairs(rawGazeX, k + 1)
         IN IF IsNull(prev) \/ IsNull(curr) THEN rest
            ELSE LET delta == Val(curr) - Val(prev)
                     expectedSign == IF k % 2 = 0 THEN -1 ELSE 1
                 IN <<delta * expectedSign>> \o rest

\* The element at index i (from 0) of s sorted ascending
RECURSIVE SortedAt(_, _)
SortedAt(s, i) ==
    LET m == CHOOSE j \in 1..Len(s) : \A k \in 1..Len(s) : s[j] <= s[k]
        rest == [k \in 1..(Len(s) - 1) |-> IF k < m THEN s[k] ELSE s[k + 1]]
    IN IF i = 0 THEN s[m] ELSE SortedAt(rest, i - 1)

\* saccadeAccuracyValue
SaccadeAccuracy(rawGazeX) ==
    LET validPairs == ValidPairs(rawGazeX, 2)
        n == Len(validPairs)
    IN IF n > 0
       THEN LET absVals == [i \in 1..n |-> Abs(validPairs[i])]
                med == SortedAt(absVals, n \div 2)
                medianAbs == IF med = 0 THEN 1 ELSE med
                scores == [i \in 1..n |->
                             Max(0, Min(1000,
                                 (Max(0, validPairs[i]) * 1000) \div medianAbs))]
            IN Some(RoundDiv(SumSeq(scores), n))
       ELSE Null

RECURSIVE ValidReadings(_)
ValidReadings(s) ==
    IF s = << >> THEN << >>
    ELSE (IF IsNull(s[1]) THEN << >> ELSE <<Val(s[1])>>)
         \o ValidReadings(Tail(s))

RECURSIVE MinSeq(_)
MinSeq(s) == IF Len(s) = 1 THEN s[1] ELSE Min(s[1], MinSeq(Tail(s)))
RECURSIVE MaxSeq(_)
MaxSeq(s) == IF Len(s) = 1 THEN s[1] ELSE Max(s[1], MaxSeq(Tail(s)))

\* The gains of the pursuit sample pairs whose target speed exceeds the
\* floor: g = eyeVel / targetIrisVel clamped to [0, 2], in thousandths.
Gains(samples, j, irisRange) ==
    LET gainAt(m) ==
            LET dt == samples[m].t - samples[m - 1].t
                dTarget == samples[m].targetX - samples[m - 1].targetX
                dGaze == samples[m].gazeX - samples[m - 1].gazeX
            IN IF dt <= 0 THEN Null
               \* |targetIrisVel| > irisRange * 0.3, with
               \* targetIrisVel = -(dTarget / dt) * irisRange / 0.8
               ELSE IF Abs(dTarget) * 25 > 6 * dt
                    THEN LET num == -dGaze * 800000
                             den == dTarget * irisRange
                             g == IF (num < 0) # (den < 0) THEN 0
                                  ELSE Abs(num) \div Abs(den)
                         IN Some(Max(0, Min(2000, g)))
                    ELSE Null
        all == [m \in 1..(Len(samples) - j + 1) |-> gainAt(m + j - 1)]
        pushed == SelectSeq(all, LAMBDA g : ~IsNull(g))
    IN [m \in 1..Len(pushed) |-> Val(pushed[m])]

\* smoothPursuitGainValue
SmoothPursuitGain(samples, rawGazeX) ==
    LET validGazeReadings == ValidReadings(rawGazeX)
        irisMin == IF Len(validGazeReadings) > 0
                   THEN MinSeq(validGazeReadings) ELSE 0
        irisMax == IF Len(validGazeReadings) > 0
                   THEN MaxSeq(validGazeReadings) ELSE 20
        irisRange == Max(irisMax - irisMin, 5)
        gains == Gains(samples, 2, irisRange)
    IN IF Len(gains) > 0
       THEN Some(RoundDiv(SumSeq(gains), Len(gains)))
       ELSE Null

\* avgPeak = peaks.reduce(...) / peaks.length || 0
AvgPeak(peaks) ==
    IF Len(peaks) = 0 THEN 0 ELSE SumSeq(peaks) \div Len(peaks)

\* isDepressed = avgPeak < threshold * DEPRESSION_MULTIPLIER || forceFail
IsDepressed(avgPeak, threshold, forceFail) ==
    \/ avgPeak * 10 < threshold * DEPRESSION_MULTIPLIER_TENTHS
    \/ forceFail


\* ------------------------------------------------------------ runExam
NumTrials == EXAM_CYCLES * NUM_POSITIONS

\* The pc values at which a run is inside one of its four phases
PhasePcs == {"yield", "fixation", "dwell", "pursuit", "flash"}

\* The local variables of a runExam invocation; threshold is the state the
\* callback closed over.
NewRun ==
    [pc |-> "yield", trial |-> 0, currentPeak |-> 0,
     threshold |-> ui.threshold,
     fixationStabilityValue |-> Null, pupilVariabilityValue |-> Null,
     prosaccadeLatencyValue |-> Null, saccadeAccuracyValue |-> Null,
     smoothPursuitGainValue |-> Null, avgPeak |-> 0, isDepressed |-> FALSE]

\* The start of a saccade trial by run i (the body of the inner loop up to
\* its await): reset the trial buffers, snapshot the pre-jump baseline,
\* stamp the jump, start the peak tracker.
TrialSetup(r, i, k) ==
    LET preJumpFrames == LastN(r.history, 4)
    IN [r EXCEPT
          !.gazeTrial = << >>,
          !.prosaccadeLatencyThisTrial = Null,
          !.preJumpBaseline =
              IF Len(preJumpFrames) > 0
              THEN Some(SumSeq(MapX(preJumpFrames)) \div Len(preJumpFrames))
              ELSE Null,
          !.jumpTime = now,
          !.peakTracker = <<i, k>>]

\* The Start Exam button: runExam up to its first await.
StartExam(maxRuns) ==
    /\ mounted
    /\ ~ui.examBtnDisabled
    /\ Len(runs) < maxRuns
    /\ ui' = [ui EXCEPT !.examRunning = TRUE, !.examBtnDisabled = TRUE,
                        !.metrics = NoMetrics, !.showTargetDot = TRUE]
    /\ refs' = [refs EXCEPT
                  !.examSaccadePeaks = << >>, !.irisSizeHistory = << >>,
                  !.fixationGaze = << >>, !.prosaccadeLatencies = << >>,
                  !.saccadeAccuracy = << >>, !.pursuitSamples = << >>,
                  !.examActive = TRUE, !.examPhase = "fixation"]
    /\ runs' = Append(runs, NewRun)
    /\ UNCHANGED <<gazeCall, landmarker, postOp,
                   mounted, isDemo, camera, det, now, intervals, calibTimers,
                   posts, obs>>

\* await setTimeout(0) resumes; runExam then awaits the fixation delay.
YieldEnd(i) ==
    /\ runs[i].pc = "yield"
    /\ runs' = [runs EXCEPT ![i].pc = "fixation"]
    /\ UNCHANGED <<gazeCall, landmarker, postOp,
                   mounted, isDemo, camera, det, now, ui, refs, intervals,
                   calibTimers, posts, obs>>

\* The fixation delay elapses: fixation stability, then the first trial.
FixationEnd(i) ==
    /\ runs[i].pc = "fixation"
    /\ LET stab == FixationStability(refs.fixationGaze)
       IN /\ runs' = [runs EXCEPT ![i].pc = "dwell", ![i].trial = 0,
                                  ![i].currentPeak = 0,
                                  ![i].fixationStabilityValue = stab]
          /\ ui' = SetUi([ui EXCEPT !.metrics.fixationStability = stab])
    /\ refs' = TrialSetup([refs EXCEPT !.examPhase = "saccade"], i, 0)
    /\ intervals' = intervals \cup {<<i, 0>>}
    /\ UNCHANGED <<gazeCall, landmarker, postOp,
                   mounted, isDemo, camera, det, now, calibTimers, posts, obs>>

\* The peak-tracker interval <<i, k>> fires: it folds liveVelocity into the
\* currentPeak variable of trial k of run i.
PeakTick(h) ==
    /\ h \in intervals
    /\ LET i == h[1]
       IN runs' = IF runs[i].pc = "dwell" /\ runs[i].trial = h[2]
                     /\ refs.liveVelocity > runs[i].currentPeak
                  THEN [runs EXCEPT ![i].currentPeak = refs.liveVelocity]
                  ELSE runs
    /\ UNCHANGED <<gazeCall, landmarker, postOp,
                   mounted, isDemo, camera, det, now, ui, refs, intervals,
                   calibTimers, posts, obs>>

\* TrialClose that records a settled gaze only when the trial has one
TrialCloseSkipsEmpty(r, currentPeak) ==
    LET settled == SelectSeq(r.gazeTrial,
                             LAMBDA g : g.t > now - SACCADE_SETTLE_MS)
        avgSettledX == IF Len(settled) > 0
                       THEN Some(SumSeq(MapX(settled)) \div Len(settled))
                       ELSE Null
    IN [r EXCEPT
          !.peakTracker = Null,
          !.examSaccadePeaks = IF currentPeak > 0 THEN Append(@, currentPeak)
                                                  ELSE @,
          !.prosaccadeLatencies =
              IF ~IsNull(r.prosaccadeLatencyThisTrial)
              THEN Append(@, Val(r.prosaccadeLatencyThisTrial))
              ELSE @,
          !.saccadeAccuracy = IF IsNull(avgSettledX) THEN @
                              ELSE Append(@, avgSettledX)]

\* The refs after a trial's dwell delay: the trial's peak, latency and
\* settled gaze are appended.
TrialClose(r, currentPeak) ==
    LET settled == SelectSeq(r.gazeTrial,
                             LAMBDA g : g.t > now - SACCADE_SETTLE_MS)
        avgSettledX == IF Len(settled) > 0
                       THEN Some(SumSeq(MapX(settled)) \div Len(settled))
                       ELSE Null
    IN [r EXCEPT
          !.peakTracker = Null,
          !.examSaccadePeaks = IF currentPeak > 0 THEN Append(@, currentPeak)
                                                  ELSE @,
          !.prosaccadeLatencies =
              IF ~IsNull(r.prosaccadeLatencyThisTrial)
              THEN Append(@, Val(r.prosaccadeLatencyThisTrial))
              ELSE @,
          !.saccadeAccuracy = Append(@, avgSettledX)]

\* clearInterval(peakTrackerRef.current), when the ref holds a handle
ClearTracker(ivs, r) ==
    IF r.peakTracker # Null THEN ivs \ {r.peakTracker} ELSE ivs

\* A dwell delay elapses: close the trial, then start the next trial or,
\* after the last one, the pursuit phase.
DwellEnd(i) ==
    /\ runs[i].pc = "dwell"
    /\ LET k == runs[i].trial
           closed == TrialClose(refs, runs[i].currentPeak)
           cleared == ClearTracker(intervals, refs)
       IN IF k + 1 < NumTrials
          THEN /\ refs' = TrialSetup(closed, i, k + 1)
               /\ intervals' = cleared \cup {<<i, k + 1>>}
               /\ runs' = [runs EXCEPT ![i].trial = k + 1,
                                       ![i].currentPeak = 0]
               /\ ui' = ui
          ELSE /\ refs' = [closed EXCEPT !.examPhase = "pursuit",
                                         !.pursuitStartTime = now]
               /\ intervals' = cleared
               /\ runs' = [runs EXCEPT ![i].pc = "pursuit"]
               /\ ui' = SetUi([ui EXCEPT !.showTargetDot = TRUE])
    /\ UNCHANGED <<gazeCall, landmarker, postOp,
                   mounted, isDemo, camera, det, now, calibTimers, posts, obs>>

\* PursuitEnd without `setShowTargetDot(false)`
PursuitEndKeepsDot(i) ==
    /\ runs[i].pc = "pursuit"
    /\ LET gain == SmoothPursuitGain(refs.pursuitSamples, refs.saccadeAccuracy)
       IN /\ runs' = [runs EXCEPT ![i].pc = "flash",
                                  ![i].smoothPursuitGainValue = gain]
          /\ ui' = SetUi([ui EXCEPT !.metrics.smoothPursuitGain = gain,
                                    !.showFlash = TRUE])
    /\ refs' = [refs EXCEPT !.examPhase = "flash"]
    /\ UNCHANGED <<gazeCall, landmarker, postOp,
                   mounted, isDemo, camera, det, now, intervals, calibTimers,
                   posts, obs>>

\* The pursuit delay elapses: pursuit gain, then the flash.
PursuitEnd(i) ==
    /\ runs[i].pc = "pursuit"
    /\ LET gain == SmoothPursuitGain(refs.pursuitSamples, refs.saccadeAccuracy)
       IN /\ runs' = [runs EXCEPT ![i].pc = "flash",
                                  ![i].smoothPursuitGainValue = gain]
          /\ ui' = SetUi([ui EXCEPT !.metrics.smoothPursuitGain = gain,
                                    !.showTargetDot = FALSE,
                                    !.showFlash = TRUE])
    /\ refs' = [refs EXCEPT !.examPhase = "flash"]
    /\ UNCHANGED <<gazeCall, landmarker, postOp,
                   mounted, isDemo, camera, det, now, intervals, calibTimers,
                   posts, obs>>

\* The reading handed to persistEyeMetricsToMongo
Reading(run) ==
    IF isDemo
    THEN [saccade_velocity |-> Some(341), fixation_stability |-> Some(912),
          pupil_variability |-> Some(18), smooth_pursuit_gain |-> Some(874),
          saccade_accuracy |-> Some(891), prosaccade_latency |-> Some(1984)]
    ELSE [saccade_velocity |-> Some(run.avgPeak),
          fixation_stability |-> run.fixationStabilityValue,
          pupil_variability |-> run.pupilVariabilityValue,
          smooth_pursuit_gain |-> run.smoothPursuitGainValue,
          saccade_accuracy |-> run.saccadeAccuracyValue,
          prosaccade_latency |-> run.prosaccadeLatencyValue]

\* FlashEnd without `examActiveRef.current = false`
FlashEndKeepsActive(i) ==
    /\ runs[i].pc = "flash"
    /\ LET pupil == PupilVariability(refs.irisSizeHistory)
           latency == ProsaccadeLatency(refs.prosaccadeLatencies)
           accuracy == SaccadeAccuracy(refs.saccadeAccuracy)
           avgPeak == AvgPeak(refs.examSaccadePeaks)
           isDepressed == IsDepressed(avgPeak, runs[i].threshold,
                                      refs.forceFail)
       IN /\ runs' = [runs EXCEPT ![i].pc = "persistPid",
                                  ![i].pupilVariabilityValue = pupil,
                                  ![i].prosaccadeLatencyValue = latency,
                                  ![i].saccadeAccuracyValue = accuracy,
                                  ![i].avgPeak = avgPeak,
                                  ![i].isDepressed = isDepressed]
          /\ ui' = SetUi([ui EXCEPT !.showFlash = FALSE,
                                    !.metrics.pupilVariability = pupil,
                                    !.metrics.prosaccadeLatency = latency,
                                    !.metrics.saccadeAccuracy = accuracy,
                                    !.examRunning = FALSE,
                                    !.finalSaccadeAvg =
                                        Some(RoundDiv(avgPeak, 10)),
                                    !.resultNormal = ~isDepressed])
    /\ refs' = [refs EXCEPT !.examPhase = "null"]
    /\ UNCHANGED <<gazeCall, landmarker, postOp,
                   mounted, isDemo, camera, det, now, intervals, calibTimers,
                   posts, obs>>

\* The flash delay elapses: the remaining metrics and the classification;
\* runExam then calls persistEyeMetricsToMongo, which awaits the patient id.
FlashEnd(i) ==
    /\ runs[i].pc = "flash"
    /\ LET pupil == PupilVariability(refs.irisSizeHistory)
           latency == ProsaccadeLatency(refs.prosaccadeLatencies)
           accuracy == SaccadeAccuracy(refs.saccadeAccuracy)
           avgPeak == AvgPeak(refs.examSaccadePeaks)
           isDepressed == IsDepressed(avgPeak, runs[i].threshold,
                                      refs.forceFail)
       IN /\ runs' = [runs EXCEPT ![i].pc = "persistPid",
                                  ![i].pupilVariabilityValue = pupil,
                                  ![i].prosaccadeLatencyValue = latency,
                                  ![i].saccadeAccuracyValue = accuracy,
                                  ![i].avgPeak = avgPeak,
                                  ![i].isDepressed = isDepressed]
          /\ ui' = SetUi([ui EXCEPT !.showFlash = FALSE,
                                    !.metrics.pupilVariability = pupil,
                                    !.metrics.prosaccadeLatency = latency,
                                    !.metrics.saccadeAccuracy = accuracy,
                                    !.examRunning = FALSE,
                                    !.finalSaccadeAvg =
                                        Some(RoundDiv(avgPeak, 10)),
                                    !.resultNormal = ~isDepressed])
    /\ refs' = [refs EXCEPT !.examPhase = "null", !.examActive = FALSE]
    /\ UNCHANGED <<gazeCall, landmarker, postOp,
                   mounted, isDemo, camera, det, now, intervals, calibTimers,
                   posts, obs>>

\* The statements of runExam after the persistence call.  In demo mode the
\* displayed values are overridden and runExam awaits the patient id again
\* before it shows the results; otherwise the results are shown at once.
AfterPersist(i) ==
    IF isDemo
    THEN /\ runs' = [runs EXCEPT ![i].pc = "demoPid"]
         /\ ui' = SetUi([ui EXCEPT
                !.finalSaccadeAvg = Some(34),
                !.metrics = [fixationStability |-> Some(912),
                             pupilVariability |-> Some(18),
                             prosaccadeLatency |-> Some(1984),
                             saccadeAccuracy |-> Some(891),
                             smoothPursuitGain |-> Some(874)],
                !.resultNormal = TRUE])
    ELSE /\ runs' = [runs EXCEPT ![i].pc = "done"]
         /\ ui' = SetUi([ui EXCEPT !.showResultsModal = TRUE,
                                   !.examBtnDisabled = FALSE])

\* getCurrentPatientId settles inside persistEyeMetricsToMongo with no
\* patient id (or by rejecting): nothing is posted.
PersistNoPatient(i) ==
    /\ runs[i].pc = "persistPid"
    /\ AfterPersist(i)
    /\ UNCHANGED <<gazeCall, landmarker, postOp,
                   mounted, isDemo, camera, det, now, refs, intervals,
                   calibTimers, posts, obs>>

\* getCurrentPatientId resolves with a patient id: the reading is posted.
PersistPost(i) ==
    /\ runs[i].pc = "persistPid"
    /\ runs' = [runs EXCEPT ![i].pc = "fetch"]
    /\ posts' = Append(posts, [run |-> i, reading |-> Reading(runs[i])])
    /\ UNCHANGED <<gazeCall, landmarker, postOp,
                   mounted, isDemo, camera, det, now, ui, refs, intervals,
                   calibTimers, obs>>

\* The fetch settles, resolved or rejected.
FetchSettled(i) ==
    /\ runs[i].pc = "fetch"
    /\ AfterPersist(i)
    /\ UNCHANGED <<gazeCall, landmarker, postOp,
                   mounted, isDemo, camera, det, now, refs, intervals,
                   calibTimers, posts, obs>>

\* Demo mode: the second getCurrentPatientId resolves; results are shown.
DemoShowResults(i) ==
    /\ runs[i].pc = "demoPid"
    /\ runs' = [runs EXCEPT ![i].pc = "done"]
    /\ ui' = SetUi([ui EXCEPT !.showResultsModal = TRUE,
                              !.examBtnDisabled = FALSE])
    /\ UNCHANGED <<gazeCall, landmarker, postOp,
                   mounted, isDemo, camera, det, now, refs, intervals,
                   calibTimers, posts, obs>>

\* ------------------------------------------------- the operator
\* The effect cleanups that run when the screen unmounts: the camera
\* effect sets cancelled and cancels the pending animation frame.
Unmount ==
    /\ mounted' = FALSE
    /\ det' = [det EXCEPT !.raf = FALSE]
    /\ obs' = [obs EXCEPT !.aborted =
                               {i \in 1..Len(runs) : runs[i].pc \in PhasePcs},
                          !.abortedIn = refs.examPhase]

\* The Cancel button: navigate("/dashboard").
Cancel ==
    /\ mounted
    /\ Unmount
    /\ UNCHANGED <<gazeCall, landmarker, postOp,
                   isDemo, camera, now, ui, refs, runs, intervals,
                   calibTimers, posts>>

\* The Continue button of the results panel: navigate("/results").
handleContinue ==
    /\ mounted
    /\ ui.showResultsModal
    /\ Unmount
    /\ UNCHANGED <<gazeCall, landmarker, postOp,
                   isDemo, camera, now, ui, refs, runs, intervals,
                   calibTimers, posts>>

\* The keydown listener: the "f" key sets the forced-fail flag.
KeyF ==
    /\ mounted
    /\ refs' = [refs EXCEPT !.forceFail = TRUE]
    /\ UNCHANGED <<gazeCall, landmarker, postOp,
                   mounted, isDemo, camera, det, now, ui, runs, intervals,
                   calibTimers, posts, obs>>

\* ------------------------------------------------ lib/faceLandmarker.ts
LEFT_EYE_INNER == 33
LEFT_EYE_OUTER == 133
LEFT_EYE_TOP == 159
LEFT_EYE_BOTTOM == 145
LEFT_IRIS_TOP == 468
LEFT_IRIS_BOTTOM == 471
LEFT_IRIS_LEFT == 469
LEFT_IRIS_RIGHT == 470

\* The landmark indices the function reads
RequiredIdx ==
    {LEFT_EYE_INNER, LEFT_EYE_OUTER, LEFT_EYE_TOP, LEFT_EYE_BOTTOM,
     LEFT_IRIS_TOP, LEFT_IRIS_BOTTOM, LEFT_IRIS_LEFT, LEFT_IRIS_RIGHT}

\* A landmark array is its length and the points at the indices read;
\* coordinates are in thousandths of the frame.
Landmarks(len, irisTop, eyeInner, irisLeft) ==
    [length |-> len,
     pt |-> [i \in RequiredIdx |->
               CASE i = LEFT_EYE_INNER -> eyeInner
                 [] i = LEFT_EYE_OUTER -> Pt(400, 500)
                 [] i = LEFT_EYE_TOP -> Pt(350, 480)
                 [] i = LEFT_EYE_BOTTOM -> Pt(350, 520)
                 [] i = LEFT_IRIS_TOP -> irisTop
                 [] i = LEFT_IRIS_BOTTOM -> Pt(360, 510)
                 [] i = LEFT_IRIS_LEFT -> irisLeft
                 [] i = LEFT_IRIS_RIGHT -> Pt(370, 500)]]

\* The arrays handed to the function: short arrays, arrays without the iris
\* points, full arrays, with coordinates inside and outside the frame.
LandmarkFrames ==
    {Landmarks(len, Pt(tx, ty), Pt(ix, 500), Pt(lx, 500)) :
        len \in GazeLengths, tx \in GazeIrisTopX, ty \in GazeIrisTopY,
        ix \in GazeEyeInnerX, lx \in GazeIrisLeftX}

\* landmarks[i]: undefined at and beyond the array's length
At(landmarks, i) ==
    IF i < landmarks.length THEN Some(landmarks.pt[i]) ELSE Null

\* The neutral vector { x: 0, y: 0 }
Neutral == [x |-> [num |-> 0, den |-> 1], y |-> [num |-> 0, den |-> 1]]

\* a / b as a fraction; 0 / b is 0
Quot(a, b) == IF a = 0 THEN [num |-> 0, den |-> 1] ELSE [num |-> a, den |-> b]

\* iris && iris.x > 0 && iris.x < 1
IrisOk(p) == ~IsNull(p) /\ Val(p).x > 0 /\ Val(p).x < 1000

\* getGazePositionFromLandmarks: the outcome of a call, a thrown TypeError
\* (a property read on undefined) or the vector returned.  The vector is
\* kept exact: x = (irisX - eyeCenterX) / eyeWidth with irisX the mean of
\* four coordinates and eyeCenterX the mean of two.
getGazePositionFromLandmarks(landmarks) ==
    LET eyeInner == At(landmarks, LEFT_EYE_INNER)
        eyeOuter == At(landmarks, LEFT_EYE_OUTER)
        eyeTop == At(landmarks, LEFT_EYE_TOP)
        eyeBottom == At(landmarks, LEFT_EYE_BOTTOM)
        iris_top == At(landmarks, LEFT_IRIS_TOP)
        iris_bottom == At(landmarks, LEFT_IRIS_BOTTOM)
        iris_left == At(landmarks, LEFT_IRIS_LEFT)
        iris_right == At(landmarks, LEFT_IRIS_RIGHT)
        returned(v) == [threw |-> FALSE, value |-> v]
    IN IF landmarks.length < 134 THEN returned(Neutral)
       ELSE IF \E p \in {eyeOuter, eyeInner, eyeTop, eyeBottom} : IsNull(p)
       THEN [threw |-> TRUE, value |-> Neutral]
       ELSE LET d == Abs(Val(eyeOuter).x - Val(eyeInner).x)
                eyeWidth == IF d = 0 THEN 10 ELSE d
                eyeCenterX2 == Val(eyeInner).x + Val(eyeOuter).x
                eyeCenterY2 == Val(eyeTop).y + Val(eyeBottom).y
            IN IF /\ landmarks.length > 473
                  /\ IrisOk(iris_top) /\ IrisOk(iris_bottom)
                  /\ IrisOk(iris_left) /\ IrisOk(iris_right)
               THEN LET irisX4 == Val(iris_top).x + Val(iris_bottom).x
                                  + Val(iris_left).x + Val(iris_right).x
                        irisY4 == Val(iris_top).y + Val(iris_bottom).y
                                  + Val(iris_left).y + Val(iris_right).y
                    IN returned([x |-> Quot(irisX4 - 2 * eyeCenterX2,
                                            4 * eyeWidth),
                                 y |-> Quot(irisY4 - 2 * eyeCenterY2,
                                            4 * eyeWidth)])
               ELSE returned(Neutral)

\* detectFace hands the first face of a detection to the function.
detectFace ==
    /\ ~gazeCall.called
    /\ \E l \in LandmarkFrames :
          LET out == getGazePositionFromLandmarks(l)
          IN gazeCall' = [landmarks |-> l, called |-> TRUE,
                          threw |-> out.threw, value |-> out.value]
    /\ UNCHANGED <<landmarker, postOp,
                   mounted, isDemo, camera, det, now, ui, refs, runs,
                   intervals, calibTimers, posts, obs>>

\* getFaceLandmarker, up to its await: an existing instance is returned;
\* otherwise createLandmarker is invoked and awaited.
GetFaceLandmarker(c) ==
    /\ landmarker.callers[c].pc = "idle"
    /\ landmarker' =
          IF ~IsNull(landmarker.instance)
          THEN [landmarker EXCEPT
                  !.callers[c] = [pc |-> "returned", made |-> 0,
                                  got |-> landmarker.instance]]
          ELSE [landmarker EXCEPT
                  !.created = @ + 1,
                  !.callers[c] = [pc |-> "creating",
                                  made |-> landmarker.created + 1,
                                  got |-> Null]]
    /\ UNCHANGED <<gazeCall, postOp,
                   mounted, isDemo, camera, det, now, ui, refs, runs,
                   intervals, calibTimers, posts, obs>>

\* createLandmarker resolves: the caller stores the instance it created in
\* landmarkerInstance and returns the module variable.
CreateResolved(c) ==
    /\ landmarker.callers[c].pc = "creating"
    /\ landmarker' =
          [landmarker EXCEPT
             !.instance = Some(landmarker.callers[c].made),
             !.callers[c].pc = "returned",
             !.callers[c].got = Some(landmarker.callers[c].made)]
    /\ UNCHANGED <<gazeCall, postOp,
                   mounted, isDemo, camera, det, now, ui, refs, runs,
                   intervals, calibTimers, posts, obs>>

\* createLandmarker rejects (the model cannot be loaded): the caller's
\* promise rejects and landmarkerInstance keeps its value.
CreateRejected(c) ==
    /\ landmarker.callers[c].pc = "creating"
    /\ landmarker' = [landmarker EXCEPT !.callers[c].pc = "failed"]
    /\ UNCHANGED <<gazeCall, postOp,
                   mounted, isDemo, camera, det, now, ui, refs, runs,
                   intervals, calibTimers, posts, obs>>

LandmarkerStep ==
    \E c \in 1..NumCallers :
       \/ GetFaceLandmarker(c)
       \/ CreateResolved(c)
       \/ CreateRejected(c)

\* ------------------------------------------------ screens/PostOp.tsx
\* The variables of the eye-test screen and of lib/faceLandmarker.ts
NotPostOp ==
    <<gazeCall, landmarker, mounted, isDemo, camera, det, now, ui, refs,
      runs, intervals, calibTimers, posts, obs>>

\* The calls in progress once call h has returned
Without(s, h) == SubSeq(s, 1, h - 1) \o SubSeq(s, h + 1, Len(s))

\* The session in progress ends, by the operator (by = 0) or by the
\* auto-stop timer armed for session `by`.
EndSession(p, by) ==
    IF p.tracking
    THEN [p EXCEPT !.tracking = FALSE, !.ends = @ \cup {<<p.session, by>>}]
    ELSE p

\* The toggle button is disabled while the camera is being requested and
\* while the tracker is loading.
ToggleEnabled ==
    \A h \in 1..Len(postOp.starts) :
       postOp.starts[h].pc \notin {"camera", "recording"}

\* handleToggleTracking of a render in which tracking is true: Stop.
ToggleStop ==
    /\ ToggleEnabled
    /\ postOp.tracking
    /\ postOp' = EndSession(postOp, 0)
    /\ UNCHANGED NotPostOp

\* handleToggleTracking of a render in which tracking is false: Start, up
\* to `await startCamera()`.
ToggleStart ==
    /\ ToggleEnabled
    /\ ~postOp.tracking
    /\ postOp.sessions < MaxSessions
    /\ postOp' = [postOp EXCEPT
                    !.starts = Append(@, [pc |-> "camera", session |-> 0])]
    /\ UNCHANGED NotPostOp

\* startCamera resolves true: setTracking(true), the dot starts, the
\* handler awaits the 500 ms delay.
CameraOk(h) ==
    /\ postOp.starts[h].pc = "camera"
    /\ postOp' = [postOp EXCEPT
                    !.tracking = TRUE,
                    !.sessions = @ + 1,
                    !.session = postOp.sessions + 1,
                    !.starts[h] = [pc |-> "loading",
                                   session |-> postOp.sessions + 1]]
    /\ UNCHANGED NotPostOp

\* startCamera resolves false: the handler ends.
CameraRefused(h) ==
    /\ postOp.starts[h].pc = "camera"
    /\ postOp' = [postOp EXCEPT !.starts = Without(@, h)]
    /\ UNCHANGED NotPostOp

\* The 500 ms delay elapses: the handler awaits startOcularRecording.
VideoDelayEnd(h) ==
    /\ postOp.starts[h].pc = "loading"
    /\ postOp' = [postOp EXCEPT !.starts[h].pc = "recording"]
    /\ UNCHANGED NotPostOp

\* startOcularRecording resolves: the 15 s auto-stop timer is armed and
\* the handler returns (the cleanup function it returns is never called).
RecordingStarted(h) ==
    /\ postOp.starts[h].pc = "recording"
    /\ postOp' = [postOp EXCEPT !.starts = Without(@, h),
                                !.timers = @ \cup {postOp.starts[h].session}]
    /\ UNCHANGED NotPostOp

\* The auto-stop timer armed for session s fires.
AutoStop(s) ==
    /\ s \in postOp.timers
    /\ postOp' = [EndSession(postOp, s) EXCEPT !.timers = @ \ {s}]
    /\ UNCHANGED NotPostOp

PostOpStep ==
    \/ ToggleStop
    \/ ToggleStart
    \/ \E h \in 1..Len(postOp.starts) :
          \/ CameraOk(h)
          \/ CameraRefused(h)
          \/ VideoDelayEnd(h)
          \/ RecordingStarted(h)
    \/ \E s \in postOp.timers : AutoStop(s)

\* ------------------------------------------------- specifications
\* The steps of the runExam invocations and of their peak trackers
RunStep ==
    \/ \E i \in 1..Len(runs) :
          \/ YieldEnd(i)
          \/ FixationEnd(i)
          \/ DwellEnd(i)
          \/ PursuitEnd(i)
          \/ FlashEnd(i)
          \/ PersistNoPatient(i)
          \/ PersistPost(i)
          \/ FetchSettled(i)
          \/ DemoShowResults(i)
    \/ \E h \in intervals : PeakTick(h)

\* The whole screen.
Next ==
    \/ CameraGranted
    \/ CameraFailed
    \/ LoadedMetadata
    \/ RafTick(MaxTicks)
    \/ \E f \in ValidFrames : SendValid(f)
    \/ SendMiss
    \/ handleCalibrate
    \/ CalibrationTimeout
    \/ StartExam(MaxRuns)
    \/ RunStep
    \/ Cancel
    \/ handleContinue
    \/ KeyF
    \/ detectFace
    \/ LandmarkerStep
    \/ PostOpStep

Spec == Init /\ [][Next]_vars

\* The sequencer under the Calibrate and Start Exam buttons while no
\* landmark frame is delivered (the camera request stays pending): the
\* calibration stage and up to MaxRuns runs, which may overlap.
NextSeq ==
    \/ handleCalibrate
    \/ CalibrationTimeout
    \/ StartExam(MaxRuns)
    \/ RunStep
    \/ handleContinue

SpecSeq == Init /\ [][NextSeq]_vars

\* One run from start to end while no landmark frame is delivered (the
\* camera request fails or stays pending), with every operator action:
\* calibration, the forced-fail key, Cancel and Continue.
NextOne ==
    \/ CameraFailed
    \/ handleCalibrate
    \/ CalibrationTimeout
    \/ StartExam(1)
    \/ RunStep
    \/ Cancel
    \/ handleContinue
    \/ KeyF

SpecOne == Init /\ [][NextOne]_vars

\* The screen while the operator never starts an exam: the camera, the
\* detection loop and the calibration stage.
NextDet ==
    \/ CameraGranted
    \/ CameraFailed
    \/ LoadedMetadata
    \/ RafTick(MaxTicks)
    \/ \E f \in ValidFrames : SendValid(f)
    \/ SendMiss
    \/ handleCalibrate
    \/ CalibrationTimeout
    \/ Cancel

SpecDet == Init /\ [][NextDet]_vars


\* ------------------------------------------------------------- claims
AllowedPhaseSteps ==
    { <<"null", "fixation">>, <<"fixation", "saccade">>,
      <<"saccade", "pursuit">>, <<"pursuit", "flash">>, <<"flash", "null">> }

\* C1: whenever the phase variable changes it moves one step along
\* null -> fixation -> saccade -> pursuit -> flash -> null, and it is never
\* set to fixation again while a run is inside a phase.
C1_PhaseOrder ==
    [][/\ refs'.examPhase # refs.examPhase
          => <<refs.examPhase, refs'.examPhase>> \in AllowedPhaseSteps
       /\ Len(runs') > Len(runs) => refs.examPhase = "null"]_vars

\* C2: no reading is posted to the persistence endpoint for a run that was
\* in a phase when the operator left the screen.
C2_NoPostForAbortedRun ==
    \A k \in 1..Len(posts) : posts[k].run \notin obs.aborted

\* The exam state C3 speaks of: phase, sample buffers, trial list, latency
\* latch, metrics.
ExamState ==
    <<refs.examPhase, refs.fixationGaze, refs.gazeTrial, refs.pursuitSamples,
      refs.irisSizeHistory, refs.saccadeAccuracy, refs.examSaccadePeaks,
      refs.prosaccadeLatencies, refs.prosaccadeLatencyThisTrial, ui.metrics>>

\* C3: once the screen was left during the saccade phase, no timer is
\* pending and no later step changes the exam state.
C3_NothingAfterAbort ==
    [][obs.abortedIn = "saccade"
         => /\ UNCHANGED ExamState
            /\ intervals = {}
            /\ \A i \in 1..Len(runs) : runs[i].pc \notin PhasePcs]_vars

RunsInPhase == {i \in 1..Len(runs) : runs[i].pc \in PhasePcs}

\* C4: at most one run is between its start and the end of its phases.
C4_OneRunAtATime == Cardinality(RunsInPhase) <= 1

\* C5: at most one landmark call is in flight, the busy flag is set exactly
\* while one is, and a pass of the detection loop made while a call is in
\* flight sends nothing and queues nothing.
C5_NoOverlappingSends ==
    /\ [](Len(det.sends) <= 1 /\ (det.sendInFlight <=> Len(det.sends) = 1))
    /\ [][det.sendInFlight /\ now' # now => det'.sends = det.sends]_vars

\* A pass of the detection loop fell due while a call was in flight.
C5_Witness ==
    /\ det.sendInFlight
    /\ Len(det.sends) = 1
    /\ now - det.lastDetection >= DETECTION_INTERVAL_MS

\* C6: a run starts only after a calibration window has closed and while
\* none is open, and no calibration window is open during an exam phase.
C6_CalibrationBeforeExam ==
    /\ [](~(obs.windowOpen /\ refs.examPhase # "null"))
    /\ [][Len(runs') > Len(runs)
            => obs.closedWindows > 0 /\ ~obs.windowOpen]_vars

\* C7: a calibration window that closes with an empty buffer sets the
\* threshold to 0.25.
C7_EmptyBufferDefault ==
    [][calibTimers' < calibTimers /\ mounted /\ refs.calibData = << >>
         => ui'.threshold = 250]_vars

AllEqual(s, v) == \A k \in 1..Len(s) : s[k] = v

\* C8: after a calibration window closed with samples, the threshold is the
\* mean of exactly the samples appended during that window plus 0.1, and
\* v + 0.1 when they all equal v.
C8_ThresholdIsWindowMean ==
    (mounted /\ obs.closedWindows > 0 /\ ~obs.windowOpen
       /\ obs.window # << >>)
    => /\ ui.threshold
            = SumSeq(obs.window) \div Len(obs.window) + THRESHOLD_OFFSET
       /\ \A v \in {obs.window[1]} :
             AllEqual(obs.window, v) => ui.threshold = v + THRESHOLD_OFFSET

\* A second window closed with two different samples of its own.
C8_Witness ==
    /\ mounted
    /\ obs.closedWindows = 2
    /\ ~obs.windowOpen
    /\ Len(obs.window) >= 2
    /\ obs.window[1] # obs.window[2]

\* C9: a run that recorded no peak velocity is classified abnormal exactly
\* when the forced-fail flag is set.
C9_NoFramesClassification ==
    [][\A i \in 1..Len(runs) :
          (mounted /\ runs[i].pc = "flash" /\ runs'[i].pc # "flash"
             /\ refs.examSaccadePeaks = << >>)
          => (ui'.resultNormal <=> ~refs.forceFail)]_vars

\* C10: every metric of the reading persisted for a run without a valid
\* frame is null.
C10_NoFramesAllNull ==
    \A k \in 1..Len(posts) :
       LET m == posts[k].reading
       IN /\ IsNull(m.fixation_stability)
          /\ IsNull(m.pupil_variability)
          /\ IsNull(m.prosaccade_latency)
          /\ IsNull(m.saccade_accuracy)
          /\ IsNull(m.smooth_pursuit_gain)
          /\ IsNull(m.saccade_velocity)

\* C11: the classification shown once a run has completed is abnormal
\* exactly when the run's mean peak velocity was below its threshold times
\* 1.2 or the forced-fail flag was set at classification (isDepressed), in
\* demo mode as in normal mode.
C11_ClassificationRule ==
    \A i \in 1..Len(runs) :
       (mounted /\ runs[i].pc = "done" /\ i = Len(runs))
       => (~ui.resultNormal <=> runs[i].isDepressed)

\* The frames of a subject who holds still
SteadyFrames == {f \in ValidFrames : avgX(f) = 500}

\* One run with the camera granted and a subject who holds still: landmark
\* frames arrive or fail at any point of the run and the operator may
\* calibrate at any time.
NextRun ==
    \/ CameraGranted
    \/ LoadedMetadata
    \/ RafTick(RunTicks)
    \/ \E f \in SteadyFrames : SendValid(f)
    \/ SendMiss
    \/ handleCalibrate
    \/ CalibrationTimeout
    \/ StartExam(1)
    \/ RunStep

SpecRun == Init /\ [][NextRun]_vars

\* The operator calibrates once, before the first run.
CalibrateOnce == obs.closedWindows = 0 /\ handleCalibrate

\* Two runs one after the other with the camera granted and a subject who
\* holds still; the results panel of the first run stays open.
NextTwo ==
    \/ CameraGranted
    \/ LoadedMetadata
    \/ RafTick(RunTicks)
    \/ \E f \in SteadyFrames : SendValid(f)
    \/ SendMiss
    \/ CalibrateOnce
    \/ CalibrationTimeout
    \/ StartExam(MaxRuns)
    \/ RunStep

SpecTwo == Init /\ [][NextTwo]_vars

\* The pc values of a run whose flash delay has elapsed
ReportedPcs == {"persistPid", "fetch", "demoPid", "done"}

\* C12: the pupil variability a run computed is null when fewer than two
\* iris-width samples were collected during the run, and a non-negative
\* number when two or more were.
C12_PupilVariabilityNull ==
    \A i \in 1..Len(runs) :
       (runs[i].pc \in ReportedPcs /\ i = Len(runs))
       => LET pv == runs[i].pupilVariabilityValue
          IN IF Len(refs.irisSizeHistory) < 2
             THEN IsNull(pv)
             ELSE ~IsNull(pv) /\ Val(pv) >= 0

\* The metrics of the results panel that hold a number
MetricsSet == {m \in DOMAIN ui.metrics : ~IsNull(ui.metrics[m])}

\* C13: while a run is inside its phases and the results panel is shown,
\* the panel shows either none or all of the run's metrics.
C13_NoPartialMetrics ==
    (mounted /\ ui.showResultsModal /\ RunsInPhase # {})
    => MetricsSet \in {{}, DOMAIN ui.metrics}

\* C14: while a run is inside its phases the calibration threshold is still
\* the one that was current when the run started, which is the value the
\* run compares the mean peak velocity against.
C14_ThresholdFixedDuringRun ==
    \A i \in RunsInPhase : mounted => ui.threshold = runs[i].threshold

\* C15: while camera acquisition has failed or no stream is active, no
\* calibration window opens and no run starts.
C15_NoStreamNoStart ==
    [][camera \notin {"stream", "looping"}
         => /\ ~(~ui.isCalibrating /\ ui'.isCalibrating)
            /\ Len(runs') = Len(runs)
            /\ (refs.examPhase = "null" => refs'.examPhase = "null")]_vars

\* The timestamps of the sequence s of samples increase strictly
Increasing(s) == \A k \in 1..(Len(s) - 1) : s[k].t < s[k + 1].t

\* C16: the timestamps of the velocity history, of the fixation samples,
\* of the gaze samples of the current trial and of the pursuit samples
\* increase strictly, so every velocity divides by a positive dt.
C16_TimestampsIncrease ==
    /\ Increasing(refs.history)
    /\ Increasing(refs.fixationGaze)
    /\ Increasing(refs.gazeTrial)
    /\ Increasing(refs.pursuitSamples)

\* Three frames were stamped, two of them within one saccade trial.
C16_Witness ==
    /\ Len(refs.history) >= 3
    /\ Len(refs.gazeTrial) >= 2

\* --------------------------------------------- the timed scenario
\* A run in real time: the operator calibrates as soon as the detection
\* loop runs and starts the exam as soon as the button is enabled, every
\* timer fires at the first animation frame at which it is due, every
\* landmark result arrives InferenceMs after its call, and the subject looks
\* at the centre until, TrueLatencyMs after each jump, the gaze moves to the
\* new dot and stays there.

\* The first animation frame at or after a delay of d ms
TickCeil(d) == RafMs * ((d + RafMs - 1) \div RafMs)

\* Iris x while the subject looks at the dot of trial k: the left dot
\* (even k) shifts the iris towards larger x, the frame being mirrored.
GazeTarget(k) ==
    IF k % 2 = 0 THEN GazeCenter + GazeShift ELSE GazeCenter - GazeShift

\* Iris x in the video frame captured at time tc
GazeAt(tc) ==
    IF runs = << >> \/ runs[1].pc \in {"yield", "fixation"} THEN GazeCenter
    ELSE IF runs[1].pc = "dwell"
         THEN LET k == runs[1].trial
              IN IF tc >= refs.jumpTime + TrueLatencyMs THEN GazeTarget(k)
                 ELSE IF k = 0 THEN GazeCenter ELSE GazeTarget(k - 1)
         ELSE GazeTarget(NumTrials - 1)

\* The landmark frame of a subject whose iris centre is at x
FrameAt(x) ==
    [LEFT_IRIS |-> Pt(x - 100, 500), RIGHT_IRIS |-> Pt(x + 100, 500),
     IRIS_LEFT |-> Pt(x - 110, 500), IRIS_RIGHT |-> Pt(x - 90, 500)]

LatCalibrate == camera = "looping" /\ obs.closedWindows = 0 /\ handleCalibrate

LatCalibrationTimeout ==
    /\ now >= DETECTION_INTERVAL_MS + CALIBRATION_DURATION_MS
    /\ CalibrationTimeout

\* The time at which the calibration timeout fires and the exam starts
LatStartTime == DETECTION_INTERVAL_MS + TickCeil(CALIBRATION_DURATION_MS)

LatFixationEnd ==
    /\ now >= LatStartTime + FIXATION_DURATION_MS
    /\ FixationEnd(1)

LatDwellEnd ==
    /\ now >= refs.jumpTime + EXAM_POSITION_DURATION_MS
    /\ DwellEnd(1)

LatPursuitEnd ==
    /\ now >= refs.pursuitStartTime + PURSUIT_DURATION_MS
    /\ PursuitEnd(1)

LatFlashEnd ==
    /\ now >= refs.pursuitStartTime + TickCeil(PURSUIT_DURATION_MS)
              + FLASH_DURATION_MS
    /\ FlashEnd(1)

\* The peak tracker of the current trial fires at the animation frames that
\* follow the multiples of PEAK_TRACK_INTERVAL_MS since the jump.
LatPeakTick ==
    \E h \in intervals :
       /\ \E n \in 1..(EXAM_POSITION_DURATION_MS \div PEAK_TRACK_INTERVAL_MS) :
             now = refs.jumpTime + TickCeil(n * PEAK_TRACK_INTERVAL_MS)
       /\ PeakTick(h)
       /\ runs' # runs

\* The landmark call in flight settles with the frame it was sent.
LatResult ==
    /\ det.sends # << >>
    /\ now >= det.lastDetection + InferenceMs
    /\ SendValid(FrameAt(GazeAt(det.lastDetection)))

\* Some callback is due at the current instant: the guards of the scenario's
\* callbacks, in the order of NextLat.
LatDue ==
    \/ camera \in {"requesting", "stream"}
    \/ (camera = "looping" /\ obs.closedWindows = 0 /\ ~ui.isCalibrating)
    \/ (calibTimers > 0
          /\ now >= DETECTION_INTERVAL_MS + CALIBRATION_DURATION_MS)
    \/ (~ui.examBtnDisabled /\ runs = << >>)
    \/ IF runs = << >> THEN FALSE
       ELSE \/ runs[1].pc = "yield"
            \/ (runs[1].pc = "fixation"
                  /\ now >= LatStartTime + FIXATION_DURATION_MS)
            \/ (runs[1].pc = "dwell"
                  /\ now >= refs.jumpTime + EXAM_POSITION_DURATION_MS)
            \/ (runs[1].pc = "pursuit"
                  /\ now >= refs.pursuitStartTime + PURSUIT_DURATION_MS)
            \/ (runs[1].pc = "flash"
                  /\ now >= refs.pursuitStartTime
                            + TickCeil(PURSUIT_DURATION_MS)
                            + FLASH_DURATION_MS)
            \/ (runs[1].pc = "dwell" /\ intervals # {}
                  /\ refs.liveVelocity > runs[1].currentPeak
                  /\ \E n \in 1..(EXAM_POSITION_DURATION_MS
                                    \div PEAK_TRACK_INTERVAL_MS) :
                        now = refs.jumpTime
                              + TickCeil(n * PEAK_TRACK_INTERVAL_MS))
    \/ (det.sends # << >> /\ now >= det.lastDetection + InferenceMs)

\* The next animation frame, once every callback due before it has run;
\* the scenario ends when the run has computed its metrics.
LatTick ==
    /\ ~LatDue
    /\ IF runs = << >> THEN TRUE ELSE runs[1].pc \in PhasePcs
    /\ RafTick(LatTicks)

\* The persistence steps of the run, which take no modelled time
LatPersist ==
    /\ runs # << >>
    /\ \/ PersistNoPatient(1)
       \/ PersistPost(1)
       \/ FetchSettled(1)
       \/ DemoShowResults(1)

NextLat ==
    \/ CameraGranted
    \/ LoadedMetadata
    \/ LatCalibrate
    \/ LatCalibrationTimeout
    \/ StartExam(1)
    \/ (runs # << >> /\ YieldEnd(1))
    \/ (runs # << >> /\ LatFixationEnd)
    \/ (runs # << >> /\ LatDwellEnd)
    \/ (runs # << >> /\ LatPursuitEnd)
    \/ (runs # << >> /\ LatFlashEnd)
    \/ LatPeakTick
    \/ LatResult
    \/ LatTick
    \/ LatPersist

SpecLat == Init /\ [][NextLat]_vars

\* A latency inside the interval from the true latency to one detection
\* interval later
InLatencyWindow(ms) ==
    ms >= TrueLatencyMs /\ ms <= TrueLatencyMs + DETECTION_INTERVAL_MS

\* C17: when the gaze stays at its baseline until exactly 200 ms after each
\* jump and is at the target from then on, every trial latches a latency
\* between 200 ms and 200 ms plus one detection interval, and the reported
\* prosaccadeLatency lies in the same interval.
C17_LatencyWithinOneTick ==
    /\ ~IsNull(refs.prosaccadeLatencyThisTrial)
          => InLatencyWindow(Val(refs.prosaccadeLatencyThisTrial))
    /\ \A k \in 1..Len(refs.prosaccadeLatencies) :
          InLatencyWindow(refs.prosaccadeLatencies[k])
    /\ \A i \in 1..Len(runs) :
          /\ runs[i].pc \in {"pursuit", "flash"}
                => Len(refs.prosaccadeLatencies) = NumTrials
          /\ runs[i].pc \in ReportedPcs
                => /\ ~IsNull(runs[i].prosaccadeLatencyValue)
                   /\ Val(runs[i].prosaccadeLatencyValue) >= 10 * TrueLatencyMs
                   /\ Val(runs[i].prosaccadeLatencyValue)
                         <= 10 * (TrueLatencyMs + DETECTION_INTERVAL_MS)

\* ------------------------------------------------ the landmark function
NextGaze == detectFace

SpecGaze == Init /\ [][NextGaze]_vars

\* A coordinate outside the open range (0, 1)
OutOfFrame(p) == p.x <= 0 \/ p.x >= 1000 \/ p.y <= 0 \/ p.y >= 1000

\* A required landmark is absent or has a coordinate out of range
Defective(landmarks) ==
    \E i \in RequiredIdx :
       \/ IsNull(At(landmarks, i))
       \/ OutOfFrame(Val(At(landmarks, i)))

\* C18: for every landmark frame in which a required eye-corner or
\* iris-boundary landmark is absent or has an x or y outside (0,1),
\* getGazePositionFromLandmarks returns {0,0} and does not throw.
C18_NeutralOnDefectiveFrame ==
    (gazeCall.called /\ Defective(gazeCall.landmarks))
       => (~gazeCall.threw /\ gazeCall.value = Neutral)

C20_OnePeakTracker ==
    /\ Cardinality(intervals) <= 1
    /\ intervals # {} => \E i \in 1..Len(runs) : runs[i].pc = "dwell"

LatJumpTime(k) ==
    DETECTION_INTERVAL_MS
    + TickCeil(LatStartTime - DETECTION_INTERVAL_MS + FIXATION_DURATION_MS)
    + k * TickCeil(EXAM_POSITION_DURATION_MS)

\* The step delivers a valid frame during trial k of the run, at least
\* LATENCY_MIN_MS after the jump and with the gaze off the baseline.
QualifyingTick ==
    /\ refs'.history # refs.history
    /\ refs.examPhase = "saccade"
    /\ now - refs.jumpTime >= LATENCY_MIN_MS
    /\ ~IsNull(refs.preJumpBaseline)
    /\ Abs(refs'.history[Len(refs'.history)].x - Val(refs.preJumpBaseline))
          > LATENCY_SHIFT_THRESHOLD

C22_MissChangesNothing ==
    /\ \A results \in MissResults \cup IncompleteResults, isCal \in BOOLEAN :
          onResults(refs, results, isCal, now) = refs
    /\ (det.sends # << >> /\ RunsInPhase # {}) => ENABLED RunStep

\* A miss is about to be delivered while a run is in a phase and the
\* buffers hold samples.
C22_Witness ==
    /\ det.sends # << >>
    /\ RunsInPhase # {}
    /\ Len(refs.history) >= 2
    /\ refs.irisSizeHistory # << >>

\* The step delivers a frame with a face and its iris landmarks.
ValidTick == refs'.history # refs.history

\* C23: during a run every valid detection tick adds one sample to the
\* iris-width history and every sample taken since the run started is
\* still in the history when the variance is computed.
C23_NoIrisSampleDropped ==
    [][refs.examActive =>
         LET old == refs.irisSizeHistory
             new == refs'.irisSizeHistory
         IN IF ValidTick
            THEN Len(new) = Len(old) + 1 /\ SubSeq(new, 1, Len(old)) = old
            ELSE new = old]_vars

FaceLost(tc) ==
    /\ tc >= LatJumpTime(0) + TrueLatencyMs + DETECTION_INTERVAL_MS + 1
    /\ tc < LatJumpTime(1) + FaceBackMs

PeakResult ==
    /\ det.sends # << >>
    /\ now >= det.lastDetection + InferenceMs
    /\ IF FaceLost(det.lastDetection)
       THEN SendMiss
       ELSE SendValid(FrameAt(GazeAt(det.lastDetection)))

NextPeak ==
    \/ CameraGranted
    \/ LoadedMetadata
    \/ LatCalibrate
    \/ LatCalibrationTimeout
    \/ StartExam(1)
    \/ (runs # << >> /\ YieldEnd(1))
    \/ (runs # << >> /\ LatFixationEnd)
    \/ (runs # << >> /\ LatDwellEnd)
    \/ (runs # << >> /\ LatPursuitEnd)
    \/ (runs # << >> /\ LatFlashEnd)
    \/ LatPeakTick
    \/ PeakResult
    \/ LatTick
    \/ LatPersist

SpecPeak == Init /\ [][NextPeak]_vars

\* C25: the peak of a saccade trial only takes velocity values measured by
\* detection ticks of that trial's dwell window: when the peak tracker
\* raises the peak, the velocity it reads was measured at or after the
\* trial's jump.
C25_PeakFromOwnTrial ==
    [][\A i \in 1..Len(runs) :
          (runs[i].pc = "dwell" /\ runs'[i].pc = "dwell"
             /\ runs'[i].trial = runs[i].trial
             /\ runs'[i].currentPeak > runs[i].currentPeak)
            => /\ runs'[i].currentPeak = refs.liveVelocity
               /\ refs.history # << >>
               /\ refs.history[Len(refs.history)].t >= refs.jumpTime]_vars

\* ------------------------------------------------ fair timers
\* One calibration and one run with a few detection ticks; the operator
\* may leave the screen at any time.
NextLive ==
    \/ CameraGranted
    \/ LoadedMetadata
    \/ RafTick(LiveTicks)
    \/ \E f \in SteadyFrames : SendValid(f)
    \/ SendMiss
    \/ CalibrateOnce
    \/ CalibrationTimeout
    \/ StartExam(1)
    \/ RunStep
    \/ Cancel

\* A setTimeout callback of runExam fires.
TimerStep ==
    \E i \in 1..Len(runs) :
       \/ YieldEnd(i)
       \/ FixationEnd(i)
       \/ DwellEnd(i)
       \/ PursuitEnd(i)
       \/ FlashEnd(i)

\* Timers that are due fire; the network owes nothing.
SpecLive == Init /\ [][NextLive]_vars /\ WF_vars(TimerStep)

\* C26: once the phases of a run are complete, the results are shown and
\* Start Exam is enabled again, whether the persistence call succeeds,
\* fails or never returns.
C26_PersistenceNeverBlocks ==
    (mounted /\ runs # << >> /\ runs[1].pc = "persistPid")
       ~> (~mounted \/ (ui.showResultsModal /\ ~ui.examBtnDisabled))

\* C27: under fair firing of timers a started run ends with the phase idle
\* and the exam-active flag cleared, whatever the detection ticks do.
C27_RunTerminates ==
    (runs # << >> /\ runs[1].pc \in PhasePcs)
       ~> (refs.examPhase = "null" /\ ~refs.examActive)

\* A run has ended after valid ticks and misses were delivered during it.
C27_Witness ==
    /\ runs # << >>
    /\ runs[1].pc \notin PhasePcs
    /\ refs.examPhase = "null"
    /\ ~refs.examActive
    /\ refs.irisSizeHistory # << >>

\* ------------------------------------------------ lib/faceLandmarker.ts
NextLandmarker == LandmarkerStep

SpecLandmarker == Init /\ [][NextLandmarker]_vars

\* C28: createLandmarker is invoked at most once, and every caller of
\* getFaceLandmarker that got an instance got the same one.
C28_CreatedAtMostOnce ==
    /\ landmarker.created <= 1
    /\ \A c, d \in 1..NumCallers :
          (landmarker.callers[c].pc = "returned"
             /\ landmarker.callers[d].pc = "returned")
            => landmarker.callers[c].got = landmarker.callers[d].got

\* ------------------------------------------------ screens/PostOp.tsx
NextPostOp == PostOpStep

SpecPostOp == Init /\ [][NextPostOp]_vars

\* C29: a tracking session is ended only by the operator's Stop or by the
\* auto-stop timer that was armed for that same session.
C29_AutoStopOwnSessionOnly ==
    \A e \in postOp.ends : e[2] = 0 \/ e[2] = e[1]

\* ------------------------------------------------ the forced-fail key
\* The "f" key pressed before or during the first run only
KeyFFirstRun ==
    /\ IF runs = << >> THEN TRUE
       ELSE Len(runs) = 1 /\ runs[1].pc \in PhasePcs
    /\ KeyF

\* One calibration, the key, and up to MaxRuns runs one after the other
NextFlag ==
    \/ CalibrateOnce
    \/ CalibrationTimeout
    \/ KeyFFirstRun
    \/ StartExam(MaxRuns)
    \/ RunStep

SpecFlag == Init /\ [][NextFlag]_vars

\* C30: the forced-fail flag affects one run only: it is clear once that
\* run's results have been reported, and a later run with no new trigger
\* is classified from its mean peak velocity and its threshold alone.
C30_ForcedFailOneRunOnly ==
    /\ Len(runs) >= 2 => ~refs.forceFail
    /\ \A i \in 2..Len(runs) :
          runs[i].pc \in ReportedPcs
             => runs[i].isDepressed
                  = IsDepressed(runs[i].avgPeak, runs[i].threshold, FALSE)

=============================================================================
